---- MODULE Spec2Model ----
(***************************************************************************)
(* export-intune-apps: the intune-export command line program.             *)
(* One run = credential resolution, token request, paginated inventory     *)
(* fetch, ingestion into the sqlite table "app", optional metadata         *)
(* enrichment and export of the table to CSV and JSON.  The table file     *)
(* persists from one run of the program to the next.                       *)
(*                                                                         *)
(* JavaScript strings are sequences of one-character strings.  A nullable  *)
(* value is None (null / undefined / SQL NULL) or Some(v).                 *)
(***************************************************************************)
EXTENDS Integers, Sequences, FiniteSets, TLC

\* The program: pc (where the run stands), argv and env (its inputs), opts,
\* exitCode, errAt (the call whose error reached the catch of main), server
\* (the inventory the API holds), apps, page, i, db (the rows of table app),
\* dbApps, j, pending (statements handed to db.run and not yet executed),
\* files (the output files).
\* History: run, netCalls, rerun, ingested, failed, calls, delays, issued,
\* wrote, dbAtStart, phases, outcome.
VARIABLES pc, run, argv, env, opts, exitCode, netCalls, errAt,
          server, apps, page, i, db, dbApps, j, pending, files,
          rerun, ingested, failed, calls, delays, issued, wrote,
          dbAtStart, phases, outcome

vars == <<pc, run, argv, env, opts, exitCode, netCalls, errAt,
          server, apps, page, i, db, dbApps, j, pending, files,
          rerun, ingested, failed, calls, delays, issued, wrote,
          dbAtStart, phases, outcome>>

-----------------------------------------------------------------------------
(* Bounds of the model *)

MaxApps == 2
MaxRuns == 2
PageSize == 1

-----------------------------------------------------------------------------
(* Nullable values and JavaScript string primitives *)

None == <<>>
Some(v) == <<v>>
IsNone(o) == Len(o) = 0
Val(o) == o[1]

RECURSIVE IndexFrom(_, _, _)
\* first position >= k at which p occurs in s, 0 when there is none
IndexFrom(s, p, k) ==
  IF k + Len(p) - 1 > Len(s) THEN 0
  ELSE IF SubSeq(s, k, k + Len(p) - 1) = p THEN k
  ELSE IndexFrom(s, p, k + 1)

IndexOf(s, p) == IndexFrom(s, p, 1)

RECURSIVE LastIndexFrom(_, _, _)
\* last position <= k at which the one-character string c occurs in s, 0 when none
LastIndexFrom(s, c, k) ==
  IF k = 0 THEN 0
  ELSE IF s[k] = c THEN k
  ELSE LastIndexFrom(s, c, k - 1)

\* String.prototype.includes
Includes(s, p) == IndexOf(s, p) # 0

\* String.prototype.startsWith
StartsWith(s, p) == Len(p) <= Len(s) /\ SubSeq(s, 1, Len(p)) = p

\* String.prototype.replace(p, "") with a string pattern: the first occurrence only
RemoveFirst(s, p) ==
  LET k == IndexOf(s, p)
  IN IF k = 0 THEN s
     ELSE SubSeq(s, 1, k - 1) \o SubSeq(s, k + Len(p), Len(s))

\* s.split(c)[0]
SplitHead(s, c) ==
  LET k == IndexOf(s, <<c>>)
  IN IF k = 0 THEN s ELSE SubSeq(s, 1, k - 1)

\* parts = s.split(c); parts[parts.length - 1]
SplitLast(s, c) == SubSeq(s, LastIndexFrom(s, c, Len(s)) + 1, Len(s))

\* `${x}` of a nullable string: null prints as the four letters "null"
NullText == <<"n","u","l","l">>
Template(o) == IF IsNone(o) THEN NullText ELSE Val(o)

\* JavaScript truthiness of a nullable string
Truthy(o) == ~IsNone(o) /\ Len(Val(o)) > 0

\* a || b
OrElse(a, b) == IF Truthy(a) THEN a ELSE b

-----------------------------------------------------------------------------
(* Identifier resolution *)

PlayPrefix == <<"h","t","t","p","s",":","/","/","p","l","a","y",".","g","o","o","g","l","e",".","c","o","m","/","s","t","o","r","e","/","a","p","p","s","/","d","e","t","a","i","l","s","?","i","d","=">>
ApplePrefix == <<"h","t","t","p","s",":","/","/","a","p","p","s",".","a","p","p","l","e",".","c","o","m","/","u","s","/","a","p","p","/">>

AndroidText == <<"a","n","d","r","o","i","d">>
IosText == <<"i","o","s">>
IdText == <<"i","d">>

\* getPackageOrItunesId(url), url a string
getPackageOrItunesId(url) ==
  IF StartsWith(url, PlayPrefix)
  THEN Some(SplitHead(RemoveFirst(url, PlayPrefix), "&"))
  ELSE IF StartsWith(url, ApplePrefix)
  THEN Some(RemoveFirst(SplitLast(SplitHead(RemoveFirst(url, ApplePrefix), "?"), "/"), IdText))
  ELSE None

PlatformOfDefaulting(type) ==
  IF Includes(type, IosText) THEN Some(IosText) ELSE Some(AndroidText)

\* the platform chosen from the @odata.type discriminator, None when unsupported
PlatformOf(type) ==
  IF Includes(type, AndroidText) THEN Some(AndroidText)
  ELSE IF Includes(type, IosText) THEN Some(IosText)
  ELSE None

-----------------------------------------------------------------------------
(* The app table: a sequence of rows in rowid order.  The descriptive      *)
(* columns url, description, minInstalls, maxInstalls, icon, developer*,   *)
(* score, reviews, ratings and ratingsHistogram are written by the same    *)
(* statements and in the same way as title; title stands for them.         *)

NewRow(rowid, app, platform, itunesId) ==
  [ id             |-> rowid,
    intuneAppId    |-> app.id,
    platformAppKey |-> platform \o <<"-">> \o Template(OrElse(app.packageId, itunesId)),
    packageId      |-> app.packageId,
    itunesId       |-> itunesId,
    appIdentifier  |-> OrElse(app.packageId, itunesId),
    platform       |-> platform,
    title          |-> None,
    primaryGenre   |-> None,
    releasedAt     |-> None,
    updatedAt      |-> None ]

\* SELECT * FROM app WHERE platformAppKey = ?
RowsByKey(table, key) == SelectSeq(table, LAMBDA r : r.platformAppKey = key)

\* the UNIQUE constraints of the schema; NULLs never collide
InsertConflicts(table, row) ==
  \E k \in 1..Len(table) :
    \/ table[k].platformAppKey = row.platformAppKey
    \/ ~IsNone(row.intuneAppId) /\ table[k].intuneAppId = row.intuneAppId

IngestOneUnchecked(table, app) ==
  IF IsNone(app.type) THEN table
  ELSE LET p == PlatformOf(Val(app.type)) IN
  IF IsNone(p) THEN table
  ELSE IF Val(p) = IosText /\ IsNone(app.appStoreUrl) THEN table
  ELSE Append(table, NewRow(Len(table) + 1, app, Val(p),
                            IF Val(p) = IosText
                            THEN getPackageOrItunesId(Val(app.appStoreUrl))
                            ELSE None))

\* one iteration of the for loop of addAppsToDb: the table after the record
\* app has been handled.  Every exception is caught inside the iteration.
IngestOne(table, app) ==
  IF IsNone(app.type) THEN table                       \* TypeError, caught
  ELSE LET p == PlatformOf(Val(app.type)) IN
  IF IsNone(p) THEN table                              \* unsupported platform
  ELSE IF Val(p) = IosText /\ IsNone(app.appStoreUrl) THEN table  \* TypeError, caught
  ELSE LET platform == Val(p)
           itunesId == IF platform = IosText
                       THEN getPackageOrItunesId(Val(app.appStoreUrl))
                       ELSE None
           row == NewRow(Len(table) + 1, app, platform, itunesId)
       IN IF Len(RowsByKey(table, row.platformAppKey)) > 0 THEN table
          ELSE IF InsertConflicts(table, row) THEN table  \* rejected, caught
          ELSE Append(table, row)

-----------------------------------------------------------------------------
(* Timestamps.  A provider value is a JavaScript string (an ISO-8601 UTC   *)
(* date, held as <<year, month, day, hour, minute, second, millisecond>>), *)
(* a number, or undefined.                                                 *)

JsString(d) == [t |-> "string", iso |-> d, num |-> 0]
JsNumber(n) == [t |-> "number", iso |-> <<>>, num |-> n]
JsUndefined == [t |-> "undefined", iso |-> <<>>, num |-> 0]

\* days between 1970-01-01 and the civil date y-m-d (proleptic Gregorian)
DaysFromCivil(y, m, d) ==
  LET yy  == IF m <= 2 THEN y - 1 ELSE y
      era == yy \div 400
      yoe == yy - era * 400
      mp  == (m + 9) % 12
      doy == (153 * mp + 2) \div 5 + d - 1
      doe == yoe * 365 + yoe \div 4 - yoe \div 100 + doy
  IN era * 146097 + doe - 719468

\* new Date(s).getTime()
DateGetTime(s) ==
  (((DaysFromCivil(s[1], s[2], s[3]) * 24 + s[4]) * 60 + s[5]) * 60 + s[6]) * 1000 + s[7]

\* if (typeof v === "string") v = new Date(v).getTime()
StringToMillis(v) == IF v.t = "string" THEN JsNumber(DateGetTime(v.iso)) ELSE v

\* if (typeof v === "number") v = Math.floor(v / 1000)
MillisToSeconds(v) == IF v.t = "number" THEN JsNumber(v.num \div 1000) ELSE v

NormalizeTimestampElse(v) ==
  IF v.t = "string" THEN StringToMillis(v) ELSE MillisToSeconds(v)

\* the four ifs on released / updated, for one of the two fields
NormalizeTimestamp(v) == MillisToSeconds(StringToMillis(v))

\* a bound statement parameter: undefined binds as NULL
SqlValue(v) == IF v.t = "number" THEN Some(v.num) ELSE None

-----------------------------------------------------------------------------
(* Enrichment of one row *)

NoMeta == [title |-> None, genre |-> None, primaryGenre |-> None,
           released |-> JsUndefined, updated |-> JsUndefined]

Threw(msg)     == [kind |-> "throw", msg |-> msg,  meta |-> NoMeta]
ReturnedNull   == [kind |-> "null",  msg |-> <<>>, meta |-> NoMeta]
Returned(meta) == [kind |-> "meta",  msg |-> <<>>, meta |-> meta]

ErrorUpdateElsewhere(appData, msg) ==
  [ key |-> appData.platformAppKey, full |-> FALSE, packageId |-> None,
    title |-> None, primaryGenre |-> Some(msg), releasedAt |-> None,
    updatedAt |-> None ]

\* UPDATE app SET title = ? WHERE platformAppKey = ?
ErrorUpdate(appData, msg) ==
  [ key |-> appData.platformAppKey, full |-> FALSE, packageId |-> None,
    title |-> Some(msg), primaryGenre |-> None, releasedAt |-> None,
    updatedAt |-> None ]

\* UPDATE app SET packageId = ?, title = ?, ... WHERE platformAppKey = ?
MetaUpdate(appData, meta) ==
  [ key          |-> appData.platformAppKey,
    full         |-> TRUE,
    packageId    |-> appData.packageId,
    title        |-> meta.title,
    primaryGenre |-> IF appData.platform = AndroidText THEN meta.genre
                     ELSE meta.primaryGenre,
    releasedAt   |-> SqlValue(NormalizeTimestamp(meta.released)),
    updatedAt    |-> SqlValue(NormalizeTimestamp(meta.updated)) ]

\* whether enrichAppMetadata reaches a store provider for this row
CallsProvider(appData) == appData.platform \in {AndroidText, IosText}

\* the statements enrichAppMetadata hands to db.run for one provider outcome
EnrichUpdates(appData, out) ==
  IF ~CallsProvider(appData) THEN {}
  ELSE IF out.kind = "throw" THEN {ErrorUpdate(appData, out.msg)}
  ELSE IF out.kind = "null" THEN {}
  ELSE {MetaUpdate(appData, out.meta)}

UpdatedRowByPlatform(r, u) ==
  IF r.platform # SubSeq(u.key, 1, Len(r.platform)) THEN r
  ELSE IF u.full
  THEN [r EXCEPT !.packageId = u.packageId, !.title = u.title,
                 !.primaryGenre = u.primaryGenre,
                 !.releasedAt = u.releasedAt, !.updatedAt = u.updatedAt]
  ELSE [r EXCEPT !.title = u.title]

\* the row after an UPDATE statement
UpdatedRow(r, u) ==
  IF r.platformAppKey # u.key THEN r
  ELSE IF u.full
  THEN [r EXCEPT !.packageId = u.packageId, !.title = u.title,
                 !.primaryGenre = u.primaryGenre,
                 !.releasedAt = u.releasedAt, !.updatedAt = u.updatedAt]
  ELSE [r EXCEPT !.title = u.title]

ApplyUpdate(table, u) == [k \in 1..Len(table) |-> UpdatedRow(table[k], u)]

\* SELECT * FROM app WHERE title IS NULL
SelectUnenriched(table) == SelectSeq(table, LAMBDA r : IsNone(r.title))

\* new Parser().parse(rows): json2csv refuses an empty data set when no
\* fields option is given
CsvThrows(rows) == Len(rows) = 0

\* number of lines of the CSV text: the header and one line per row
CsvLines(rows) == 1 + Len(rows)

-----------------------------------------------------------------------------
(* Inputs *)

Min(a, b) == IF a <= b THEN a ELSE b

RECURSIVE SeqsUpTo(_, _)
\* the sequences over S of length at most n
SeqsUpTo(S, n) ==
  IF n = 0 THEN {<<>>}
  ELSE LET shorter == SeqsUpTo(S, n - 1)
       IN shorter \cup {Append(s, x) : s \in {q \in shorter : Len(q) = n - 1}, x \in S}

AndroidStoreApp == <<"#","m","i","c","r","o","s","o","f","t",".","g","r","a","p","h",".","a","n","d","r","o","i","d","S","t","o","r","e","A","p","p">>
IosStoreApp     == <<"#","m","i","c","r","o","s","o","f","t",".","g","r","a","p","h",".","i","o","s","S","t","o","r","e","A","p","p">>
WebApp          == <<"#","m","i","c","r","o","s","o","f","t",".","g","r","a","p","h",".","w","e","b","A","p","p">>

FacebookUrl == <<"h","t","t","p","s",":","/","/","a","p","p","s",".","a","p","p","l","e",".","c","o","m","/","u","s","/","a","p","p","/","f","a","c","e","b","o","o","k","/","i","d","2","8","4","8","8","2","2","1","5","?","u","o","=","4">>
TemuUrl     == <<"h","t","t","p","s",":","/","/","p","l","a","y",".","g","o","o","g","l","e",".","c","o","m","/","s","t","o","r","e","/","a","p","p","s","/","d","e","t","a","i","l","s","?","i","d","=","c","o","m",".","e","i","n","n","o","v","a","t","i","o","n",".","t","e","m","u","&","h","l","=","e","n","_","U","S">>
TemuPackage == <<"c","o","m",".","e","i","n","n","o","v","a","t","i","o","n",".","t","e","m","u">>

Record(type, id, packageId, url) ==
  [type |-> type, id |-> id, packageId |-> packageId, appStoreUrl |-> url]

\* inventory records of the runs: two records sharing a key, two sharing an id
RecordPool ==
  { Record(Some(AndroidStoreApp), Some(<<"1">>), Some(TemuPackage), Some(TemuUrl)),
    Record(Some(IosStoreApp),     Some(<<"2">>), None,              Some(FacebookUrl)),
    Record(Some(WebApp),          Some(<<"3">>), None,              None),
    Record(Some(AndroidStoreApp), Some(<<"4">>), Some(TemuPackage), Some(TemuUrl)),
    Record(Some(IosStoreApp),     Some(<<"1">>), None,
           Some(<<"h","t","t","p","s",":","/","/","a","p","p","s",".","a","p","p","l","e",".","c","o","m","/","u","s","/","a","p","p","/","i","d","4","2">>)) }

Inventories == SeqsUpTo(RecordPool, MaxApps)

GplayMeta ==
  [ title |-> Some(<<"T","e","m","u">>), genre |-> Some(<<"S","h","o","p","p","i","n","g">>), primaryGenre |-> None,
    released |-> JsString(<<1970, 1, 2, 0, 0, 0, 0>>), updated |-> JsNumber(172800999) ]

ItunesMeta ==
  [ title |-> Some(<<"F","a","c","e","b","o","o","k">>), genre |-> None, primaryGenre |-> Some(<<"S","o","c","i","a","l">>),
    released |-> JsString(<<1969, 12, 31, 23, 59, 59, 999>>),
    updated |-> JsString(<<1970, 1, 3, 0, 0, 0, 1>>) ]

\* what a store provider may answer for a row
Outcomes(appData) ==
  { Threw(<<"A","p","p"," ","n","o","t"," ","f","o","u","n","d"," ","(","4","0","4",")">>), Threw(<<>>), ReturnedNull,
    Returned(IF appData.platform = AndroidText THEN GplayMeta ELSE ItunesMeta) }

GoodArgv(m) == [tenantId |-> Some(<<"t">>), clientId |-> Some(<<"c">>), metadata |-> m]
GoodEnv == [TENANT_ID |-> None, CLIENT_ID |-> None, CLIENT_SECRET |-> Some(<<"s">>)]
NoOpts == [tenantId |-> None, clientId |-> None, clientSecret |-> None, metadata |-> FALSE]

-----------------------------------------------------------------------------
(* The run *)

Enter(ph) == IF Len(phases) > 0 /\ phases[Len(phases)] = ph THEN phases
             ELSE Append(phases, ph)

InitWith(a, e, inv) ==
  /\ pc = "parse" /\ run = 1 /\ argv = a /\ env = e /\ opts = NoOpts
  /\ exitCode = 0 /\ netCalls = 0 /\ errAt = "none"
  /\ server = inv /\ apps = <<>> /\ page = 0 /\ i = 1
  /\ db = <<>> /\ dbApps = <<>> /\ j = 1 /\ pending = {} /\ files = None
  /\ rerun = FALSE /\ ingested = FALSE /\ failed = {} /\ calls = <<>>
  /\ delays = 0 /\ issued = {} /\ wrote = FALSE /\ dbAtStart = <<>>
  /\ phases = <<>> /\ outcome = ReturnedNull

Init == \E m \in BOOLEAN, inv \in Inventories : InitWith(GoodArgv(m), GoodEnv, inv)

\* program.parse(process.argv): a requiredOption that is not on the command
\* line ends the process with exit code 1
ParseArgs ==
  /\ pc = "parse"
  /\ IF IsNone(argv.tenantId) \/ IsNone(argv.clientId)
     THEN /\ pc' = "exit" /\ exitCode' = 1 /\ opts' = opts
     ELSE /\ pc' = "check" /\ exitCode' = exitCode
          /\ opts' = [tenantId |-> argv.tenantId, clientId |-> argv.clientId,
                      clientSecret |-> None, metadata |-> argv.metadata]
  /\ UNCHANGED <<run, argv, env, netCalls, errAt, server, apps, page, i, db,
                 dbApps, j, pending, files, rerun, ingested, failed, calls,
                 delays, issued, wrote, dbAtStart, phases, outcome>>

ResolvedOpts ==
  [opts EXCEPT !.tenantId = OrElse(opts.tenantId, env.TENANT_ID),
               !.clientId = OrElse(opts.clientId, env.CLIENT_ID),
               !.clientSecret = env.CLIENT_SECRET]

\* the credential check before main
CheckCredentials ==
  /\ pc = "check"
  /\ opts' = ResolvedOpts
  /\ IF ~Truthy(opts'.tenantId) \/ ~Truthy(opts'.clientId) \/ ~Truthy(opts'.clientSecret)
     THEN pc' = "exit" /\ exitCode' = 1
     ELSE pc' = "auth" /\ exitCode' = exitCode
  /\ UNCHANGED <<run, argv, env, netCalls, errAt, server, apps, page, i, db,
                 dbApps, j, pending, files, rerun, ingested, failed, calls,
                 delays, issued, wrote, dbAtStart, phases, outcome>>

\* where main stands after getToken answered (ok) or threw
AfterToken(ok) == IF ok THEN "fetch" ELSE "error"

\* getToken: one POST to the identity provider
GetToken ==
  /\ pc = "auth"
  /\ \E ok \in BOOLEAN :
       /\ pc' = AfterToken(ok)
       /\ errAt' = IF ok THEN errAt ELSE "auth"
  /\ netCalls' = netCalls + 1
  /\ phases' = Enter("auth")
  /\ UNCHANGED <<run, argv, env, opts, exitCode, server, apps, page, i, db,
                 dbApps, j, pending, files, rerun, ingested, failed, calls,
                 delays, issued, wrote, dbAtStart, outcome>>

AfterFetchPartial(ok, more) == IF ok /\ more THEN "fetch" ELSE "persist"

\* where main stands after one GET of getIntuneApps: ok is whether it
\* answered, more whether the answer carried an @odata.nextLink
AfterFetch(ok, more) == IF ~ok THEN "error" ELSE IF more THEN "fetch" ELSE "persist"

\* one iteration of the while loop of getIntuneApps; after the last page
\* main creates the output directory and opens the database (initAppDb)
FetchPage ==
  /\ pc = "fetch"
  /\ LET last == Min(page + PageSize, Len(server)) IN
     \E ok \in BOOLEAN :
       /\ pc' = AfterFetch(ok, last < Len(server))
       /\ errAt' = IF ok THEN errAt ELSE "fetch"
       /\ apps' = IF ok THEN apps \o SubSeq(server, page + 1, last) ELSE apps
       /\ page' = IF ok THEN last ELSE page
  /\ netCalls' = netCalls + 1
  /\ phases' = Enter("fetch")
  /\ UNCHANGED <<run, argv, env, opts, exitCode, server, i, db, dbApps, j,
                 pending, files, rerun, ingested, failed, calls, delays,
                 issued, wrote, dbAtStart, outcome>>

\* one iteration of the for loop of addAppsToDb
AddApp ==
  /\ pc = "persist" /\ i <= Len(apps)
  /\ db' = IngestOne(db, apps[i])
  /\ i' = i + 1
  /\ phases' = Enter("persist")
  /\ UNCHANGED <<pc, run, argv, env, opts, exitCode, netCalls, errAt, server,
                 apps, page, dbApps, j, pending, files, rerun, ingested,
                 failed, calls, delays, issued, wrote, dbAtStart, outcome>>

\* addAppsToDb returned: with --metadata main selects the rows to enrich
AfterPersist ==
  /\ pc = "persist" /\ i > Len(apps)
  /\ ingested' = TRUE
  /\ IF opts.metadata
     THEN /\ dbApps' = SelectUnenriched(db)
          /\ pc' = IF Len(dbApps') = 0 THEN "export" ELSE "enrich"
          /\ phases' = Append(Enter("persist"), "enrich")
     ELSE /\ dbApps' = dbApps
          /\ pc' = "export"
          /\ phases' = Enter("persist")
  /\ j' = 1
  /\ UNCHANGED <<run, argv, env, opts, exitCode, netCalls, errAt, server, apps,
                 page, i, db, pending, files, rerun, failed, calls, delays,
                 issued, wrote, dbAtStart, outcome>>

\* enrichAppMetadata(dbApps[j], db): the provider call and the db.run that
\* follows it; the statement is queued, its callback is not awaited
EnrichWith(answers) ==
  /\ pc = "enrich"
  /\ LET appData == dbApps[j] IN
     \E out \in answers :
       /\ outcome' = out
       /\ pending' = pending \cup EnrichUpdates(appData, out)
       /\ issued' = issued \cup EnrichUpdates(appData, out)
       /\ calls' = IF CallsProvider(appData)
                   THEN Append(calls, appData.platformAppKey) ELSE calls
       /\ failed' = IF CallsProvider(appData) /\ out.kind = "throw"
                    THEN failed \cup {<<appData.platformAppKey, out.msg>>}
                    ELSE failed
  /\ pc' = "delay"
  /\ UNCHANGED <<run, argv, env, opts, exitCode, netCalls, errAt, server, apps,
                 page, i, db, dbApps, j, files, rerun, ingested, delays, wrote,
                 dbAtStart, phases>>

EnrichApp == pc = "enrich" /\ EnrichWith(Outcomes(dbApps[j]))

AfterDelayShort(n, len) == IF n + 1 < len THEN "enrich" ELSE "export"

\* where the for loop of main stands after the timer of an iteration
AfterDelay(n, len) == IF n < len THEN "enrich" ELSE "export"

\* await new Promise((resolve) => setTimeout(resolve, 5000))
Delay ==
  /\ pc = "delay"
  /\ pc' = AfterDelay(j, Len(dbApps))
  /\ j' = j + 1
  /\ delays' = delays + 1
  /\ UNCHANGED <<run, argv, env, opts, exitCode, netCalls, errAt, server, apps,
                 page, i, db, dbApps, pending, files, rerun, ingested, failed,
                 calls, issued, wrote, dbAtStart, phases, outcome>>

\* the database executes one queued UPDATE
DbRun ==
  /\ \E u \in pending :
       /\ db' = ApplyUpdate(db, u)
       /\ pending' = pending \ {u}
  /\ UNCHANGED <<pc, run, argv, env, opts, exitCode, netCalls, errAt, server,
                 apps, page, i, dbApps, j, files, rerun, ingested, failed,
                 calls, delays, issued, wrote, dbAtStart, phases, outcome>>

\* exportToCsvAndJson: one SELECT * FROM app, then both files
Export ==
  /\ pc = "export"
  /\ IF CsvThrows(db)
     THEN /\ pc' = "error" /\ errAt' = "export"
          /\ files' = files /\ wrote' = wrote
     ELSE /\ pc' = "done" /\ errAt' = errAt
          /\ files' = Some([csvLines |-> CsvLines(db), json |-> db])
          /\ wrote' = TRUE
  /\ phases' = Enter("export")
  /\ UNCHANGED <<run, argv, env, opts, exitCode, netCalls, server, apps, page,
                 i, db, dbApps, j, pending, rerun, ingested, failed, calls,
                 delays, issued, dbAtStart, outcome>>

\* the process has ended (nothing is left to run) and the program is started
\* again on the same database file
StartRun ==
  /\ pc \in {"done", "error"} /\ pending = {} /\ run < MaxRuns
  /\ \E m \in BOOLEAN, inv \in Inventories :
       /\ argv' = GoodArgv(m)
       /\ server' = inv
       /\ rerun' = (ingested /\ inv = server)
  /\ pc' = "parse" /\ run' = run + 1 /\ opts' = NoOpts
  /\ exitCode' = 0 /\ netCalls' = 0 /\ errAt' = "none"
  /\ apps' = <<>> /\ page' = 0 /\ i' = 1 /\ dbApps' = <<>> /\ j' = 1
  /\ ingested' = FALSE /\ calls' = <<>> /\ delays' = 0 /\ issued' = {}
  /\ wrote' = FALSE /\ dbAtStart' = db /\ phases' = <<>>
  /\ outcome' = ReturnedNull
  /\ UNCHANGED <<env, db, pending, files, failed>>

Next ==
  \/ ParseArgs \/ CheckCredentials \/ GetToken \/ FetchPage \/ AddApp
  \/ AfterPersist \/ EnrichApp \/ Delay \/ DbRun \/ Export \/ StartRun

Spec == Init /\ [][Next]_vars

-----------------------------------------------------------------------------
(* Credential resolution alone: every combination of the command line and  *)
(* the environment, up to the token request.                               *)

ArgvPool ==
  [ tenantId : {None, Some(<<>>), Some(<<"t">>)},
    clientId : {None, Some(<<>>), Some(<<"c">>)},
    metadata : {FALSE} ]

EnvPool ==
  [ TENANT_ID : {None, Some(<<"T">>)}, CLIENT_ID : {None, Some(<<"C">>)},
    CLIENT_SECRET : {None, Some(<<"s">>)} ]

InitCred == \E a \in ArgvPool, e \in EnvPool : InitWith(a, e, <<>>)

NextCred == ParseArgs \/ CheckCredentials \/ GetToken

SpecCred == InitCred /\ [][NextCred]_vars

-----------------------------------------------------------------------------
(* Ingestion of one record alone: every combination of discriminator,      *)
(* package identifier and store URL, fetched as a one-record inventory.    *)

AndroidTypes == { AndroidStoreApp, <<"#","m","i","c","r","o","s","o","f","t",".","g","r","a","p","h",".","a","n","d","r","o","i","d","L","o","b","A","p","p">>,
                  <<"#","m","i","c","r","o","s","o","f","t",".","g","r","a","p","h",".","a","n","d","r","o","i","d","F","o","r","W","o","r","k","A","p","p">>,
                  <<"#","m","i","c","r","o","s","o","f","t",".","g","r","a","p","h",".","a","n","d","r","o","i","d","M","a","n","a","g","e","d","S","t","o","r","e","A","p","p">> }

IosTypes == {IosStoreApp, <<"#","m","i","c","r","o","s","o","f","t",".","g","r","a","p","h",".","i","o","s","V","p","p","A","p","p">>}

\* discriminators that contain neither "android" nor "ios"
OtherTypes == { WebApp, <<"#","m","i","c","r","o","s","o","f","t",".","g","r","a","p","h",".","m","a","n","a","g","e","d","A","n","d","r","o","i","d","S","t","o","r","e","A","p","p">>,
                <<"#","m","i","c","r","o","s","o","f","t",".","g","r","a","p","h",".","m","a","n","a","g","e","d","I","O","S","S","t","o","r","e","A","p","p">> }

PlayUrls == {None, Some(TemuUrl),
             Some(<<"h","t","t","p","s",":","/","/","p","l","a","y",".","g","o","o","g","l","e",".","c","o","m","/","s","t","o","r","e","/","a","p","p","s","/","d","e","t","a","i","l","s","?","i","d","=","c","o","m",".","x">>)}

AppleUrls == { None, Some(FacebookUrl),
               Some(<<"h","t","t","p","s",":","/","/","a","p","p","s",".","a","p","p","l","e",".","c","o","m","/","u","s","/","a","p","p","/","i","d","4","2">>),
               Some(<<"h","t","t","p","s",":","/","/","a","p","p","s",".","a","p","p","l","e",".","c","o","m","/","g","b","/","a","p","p","/","m","a","p","s","/","i","d","7","?","u","o","=","4">>) }

ResolvePool ==
  { Record(Some(ty), Some(<<"1">>), p, u) :
      ty \in AndroidTypes, p \in {None, Some(<<>>), Some(TemuPackage)}, u \in PlayUrls }
  \cup
  { Record(Some(ty), Some(<<"1">>), p, u) :
      ty \in IosTypes, p \in {None, Some(<<>>)}, u \in AppleUrls }
  \cup
  { Record(Some(ty), Some(<<"1">>), None, u) :
      ty \in OtherTypes, u \in {None, Some(TemuUrl), Some(FacebookUrl)} }

InitResolve ==
  \E r \in ResolvePool :
    /\ pc = "persist" /\ run = 1 /\ argv = GoodArgv(FALSE) /\ env = GoodEnv
    /\ opts = [tenantId |-> Some(<<"t">>), clientId |-> Some(<<"c">>),
               clientSecret |-> Some(<<"s">>), metadata |-> FALSE]
    /\ exitCode = 0 /\ netCalls = 2 /\ errAt = "none"
    /\ server = <<r>> /\ apps = <<r>> /\ page = 1 /\ i = 1
    /\ db = <<>> /\ dbApps = <<>> /\ j = 1 /\ pending = {} /\ files = None
    /\ rerun = FALSE /\ ingested = FALSE /\ failed = {} /\ calls = <<>>
    /\ delays = 0 /\ issued = {} /\ wrote = FALSE /\ dbAtStart = <<>>
    /\ phases = <<"auth", "fetch">> /\ outcome = ReturnedNull

NextResolve == AddApp \/ AfterPersist

SpecResolve == InitResolve /\ [][NextResolve]_vars

-----------------------------------------------------------------------------
(* Enrichment of one row alone: the provider answers with the same date    *)
(* once as an ISO string and once as epoch milliseconds.  DateTable pairs  *)
(* each ISO date with its epoch milliseconds.                              *)

DateTable == {
    <<<<1970,1,1,0,0,0,0>>, 0>>,
    <<<<1969,12,31,23,59,59,999>>, -1>>,
    <<<<1970,1,1,0,0,0,1>>, 1>>,
    <<<<1970,1,1,0,0,0,999>>, 999>>,
    <<<<1970,1,1,0,0,1,0>>, 1000>>,
    <<<<1969,12,31,23,59,59,0>>, -1000>>,
    <<<<1969,12,31,23,59,58,1>>, -1999>>,
    <<<<1970,1,24,23,59,59,999>>, 2073599999>>,
    <<<<1969,12,8,0,0,0,0>>, -2073600000>>,
    <<<<1970,1,2,3,4,5,678>>, 97445678>>,
    <<<<1969,12,25,12,30,0,500>>, -559799500>>,
    <<<<1970,1,10,0,0,0,0>>, 777600000>>,
    <<<<1969,12,24,2,20,51,128>>, -682748872>>,
    <<<<1970,1,24,2,50,50,724>>, 1997450724>>,
    <<<<1969,12,15,11,58,12,279>>, -1425707721>>,
    <<<<1969,12,27,15,2,33,998>>, -377846002>>,
    <<<<1970,1,9,8,35,42,288>>, 722142288>>,
    <<<<1969,12,10,9,36,28,624>>, -1866211376>>,
    <<<<1969,12,11,14,25,11,475>>, -1762488525>>,
    <<<<1970,1,17,19,49,6,212>>, 1453746212>>,
    <<<<1970,1,3,15,19,55,691>>, 227995691>>,
    <<<<1969,12,12,16,18,5,457>>, -1669314543>>,
    <<<<1969,12,26,4,17,1,944>>, -502978056>>,
    <<<<1970,1,5,23,17,35,453>>, 429455453>>,
    <<<<1969,12,10,21,11,43,477>>, -1824496523>>,
    <<<<1970,1,22,5,19,9,204>>, 1833549204>>,
    <<<<1970,1,2,5,23,39,893>>, 105819893>>,
    <<<<1969,12,18,16,8,41,676>>, -1151478324>>,
    <<<<1969,12,9,20,44,2,648>>, -1912557352>>,
    <<<<1969,12,12,6,32,20,570>>, -1704459430>> }

TsMetas ==
  { [ title |-> Some(<<"T">>), genre |-> None, primaryGenre |-> None,
      released |-> IF s THEN JsString(e[1]) ELSE JsNumber(e[2]),
      updated  |-> IF s THEN JsNumber(e[2]) ELSE JsString(e[1]) ] :
      e \in DateTable, s \in BOOLEAN }

TsAnswers == {Returned(m) : m \in TsMetas}

TsRows ==
  { NewRow(1, Record(Some(AndroidStoreApp), Some(<<"1">>), Some(TemuPackage), None),
           AndroidText, None),
    NewRow(1, Record(Some(IosStoreApp), Some(<<"2">>), None, Some(FacebookUrl)),
           IosText, getPackageOrItunesId(FacebookUrl)) }

InitTs ==
  \E r \in TsRows :
    /\ pc = "enrich" /\ run = 1 /\ argv = GoodArgv(TRUE) /\ env = GoodEnv
    /\ opts = [tenantId |-> Some(<<"t">>), clientId |-> Some(<<"c">>),
               clientSecret |-> Some(<<"s">>), metadata |-> TRUE]
    /\ exitCode = 0 /\ netCalls = 2 /\ errAt = "none"
    /\ server = <<>> /\ apps = <<>> /\ page = 0 /\ i = 1
    /\ db = <<r>> /\ dbApps = <<r>> /\ j = 1 /\ pending = {} /\ files = None
    /\ rerun = FALSE /\ ingested = TRUE /\ failed = {} /\ calls = <<>>
    /\ delays = 0 /\ issued = {} /\ wrote = FALSE /\ dbAtStart = <<r>>
    /\ phases = <<"auth", "fetch", "persist", "enrich">>
    /\ outcome = ReturnedNull

NextTs == EnrichWith(TsAnswers) \/ DbRun \/ Delay

SpecTs == InitTs /\ [][NextTs]_vars

-----------------------------------------------------------------------------
(* Properties *)

Keys(table) == {table[k].platformAppKey : k \in 1..Len(table)}
UniqueKeys(table) ==
  \A a, b \in 1..Len(table) :
    table[a].platformAppKey = table[b].platformAppKey => a = b

\* C1: ingesting again the response that the previous run ingested changes
\* no row of the table, and no two rows ever share a platformAppKey.
C1_Idempotent ==
  /\ [][(rerun /\ pc = "persist") => db' = db]_vars
  /\ [](UniqueKeys(db))

\* a second ingestion of a response whose two records share a key has ended
C1_Witness ==
  /\ rerun /\ pc = "persist" /\ i = 3 /\ Len(db) = 1
  /\ apps[1].packageId = apps[2].packageId /\ apps[1].id # apps[2].id
  /\ ~IsNone(PlatformOf(Val(apps[1].type)))

Unsupported(app) ==
  /\ ~IsNone(app.type)
  /\ ~Includes(Val(app.type), AndroidText)
  /\ ~Includes(Val(app.type), IosText)

\* C2: a record whose type names neither android nor ios writes no row and
\* the loop goes on with the next record; every row is android or ios.
C2_SkipUnsupported ==
  /\ [][(pc = "persist" /\ i <= Len(apps) /\ Unsupported(apps[i]))
          => (db' = db /\ pc' = "persist" /\ i' = i + 1)]_vars
  /\ [](\A k \in 1..Len(db) : db[k].platform \in {AndroidText, IosText})

\* an unsupported record was skipped and the record after it was inserted
C2_Witness ==
  /\ pc = "persist" /\ i = 3 /\ Unsupported(apps[1])
  /\ Len(db) = Len(dbAtStart) + 1 /\ db[Len(db)].intuneAppId = apps[2].id

FailedKeys == {f[1] : f \in failed}
Waiting == IF pc = "enrich" THEN j..Len(dbApps)
           ELSE IF pc = "delay" THEN (j + 1)..Len(dbApps) ELSE {}

Rank(ph) == CASE ph = "auth" -> 1 [] ph = "fetch" -> 2 [] ph = "persist" -> 3
              [] ph = "enrich" -> 4 [] ph = "export" -> 5

\* C5: the phases of a run are entered in the order auth, fetch, persist,
\* enrich, export, none twice; when the token request or a page fetch
\* fails the run ends with no row changed and no file written.
C5_PhasesAndAbort ==
  /\ \A a, b \in 1..Len(phases) : a < b => Rank(phases[a]) < Rank(phases[b])
  /\ errAt \in {"auth", "fetch"} =>
       /\ pc = "error" /\ db = dbAtStart /\ ~wrote
       /\ issued = {} /\ pending = {}

\* the second page of a later run failed after the first had arrived
C5_Witness ==
  /\ errAt = "fetch" /\ run = 2 /\ Len(apps) = 1 /\ Len(db) > 0
  /\ ~IsNone(PlatformOf(Val(apps[1].type))) /\ apps[1].id \notin {db[k].intuneAppId : k \in 1..Len(db)}

Exported == pc = "done" \/ (pc = "error" /\ errAt = "export")

\* C9: the provider calls of a pass follow the selection in order, one per
\* selected row, each followed by one delay; a failed call does not stop
\* the calls after it.
C9_OneCallEachInOrder ==
  /\ \A n \in 1..Len(dbApps) : IsNone(dbApps[n].title)
  /\ UniqueKeys(dbApps)
  /\ Len(calls) <= Len(dbApps)
  /\ \A n \in 1..Len(calls) : calls[n] = dbApps[n].platformAppKey
  /\ pc = "enrich" => Len(calls) = j - 1 /\ delays = j - 1
  /\ pc = "delay" => Len(calls) = j /\ delays = j - 1
  /\ (pc = "export" \/ Exported) => Len(calls) = Len(dbApps) /\ delays = Len(dbApps)

\* two rows were selected, the first call failed, the second was still made
C9_Witness ==
  /\ pc = "export" /\ Len(calls) = 2 /\ delays = 2
  /\ calls[1] \in FailedKeys /\ calls[2] \notin FailedKeys

Identity(r) ==
  <<r.platformAppKey, r.platform, r.intuneAppId, r.itunesId, r.appIdentifier>>

\* C10: no step removes a row or changes the identity columns of a row, and
\* a step that executes an UPDATE changes the row of that statement only.
C10_Frame ==
  [][ /\ Len(db') >= Len(db)
      /\ \A k \in 1..Len(db) : Identity(db'[k]) = Identity(db[k])
      /\ (db' # db /\ Len(db') = Len(db)) =>
           \E u \in pending :
             /\ pending' = pending \ {u}
             /\ \A k \in 1..Len(db) :
                  db[k].platformAppKey # u.key => db'[k] = db[k] ]_vars

\* one of two rows of the same platform has been enriched, the other not
C10_Witness ==
  /\ Len(db) = 2 /\ db[1].platform = db[2].platform /\ pending = {}
  /\ ~IsNone(db[1].title) /\ IsNone(db[2].title) /\ IsNone(db[2].primaryGenre)

Available(flag, fallback) == Truthy(flag) \/ Truthy(fallback)

AllAvailable ==
  /\ Available(argv.tenantId, env.TENANT_ID)
  /\ Available(argv.clientId, env.CLIENT_ID)
  /\ Truthy(env.CLIENT_SECRET)

\* C4: the run reaches the token request exactly when tenant id (flag or
\* TENANT_ID), client id (flag or CLIENT_ID) and CLIENT_SECRET are all
\* available; otherwise it exits with code 1 before any network call.
C4_Claim ==
  /\ pc = "exit" => ~AllAvailable /\ exitCode = 1 /\ netCalls = 0
  /\ pc \in {"auth", "fetch", "error"} => AllAvailable

\* C6: the export writes a CSV of N+1 lines and a JSON array of length N
\* for the N rows of the table, and they show every UPDATE the enrichment
\* phase of the run issued.
C6_Claim ==
  Exported =>
    /\ wrote /\ ~IsNone(files)
    /\ Val(files).csvLines = Len(db) + 1
    /\ Len(Val(files).json) = Len(db)
    /\ \A u \in issued : ApplyUpdate(Val(files).json, u) = Val(files).json

\* the identifier the specification resolves for a record of a platform
ClaimedId(app, platform) ==
  LET url == Val(app.appStoreUrl) IN
  IF Truthy(app.packageId) THEN app.packageId
  ELSE IF platform = IosText
  THEN IF StartsWith(url, ApplePrefix)
       THEN LET seg == SplitLast(SplitHead(SubSeq(url, Len(ApplePrefix) + 1, Len(url)), "?"), "/")
            IN Some(IF StartsWith(seg, IdText) THEN SubSeq(seg, 3, Len(seg)) ELSE seg)
       ELSE None
  ELSE IF StartsWith(url, PlayPrefix)
       THEN Some(SplitHead(SubSeq(url, Len(PlayPrefix) + 1, Len(url)), "&"))
       ELSE None

\* C7: the stored key of a record is "{platform}-{id}", id being the
\* package identifier when the record has one, else the identifier parsed
\* from its store URL by the policy of its platform.
C7_Claim ==
  (pc = "persist" /\ i = 2 /\ ~IsNone(apps[1].appStoreUrl)
     /\ ~IsNone(PlatformOf(Val(apps[1].type)))) =>
    LET platform == Val(PlatformOf(Val(apps[1].type)))
        id == ClaimedId(apps[1], platform)
    IN /\ Len(db) = 1
       /\ db[1].appIdentifier = id
       /\ db[1].platformAppKey = platform \o <<"-">> \o Template(id)

\* C8: an ISO string and the epoch milliseconds of the same date are both
\* stored as the same epoch seconds, the floor of milliseconds / 1000.
C8_SameSeconds ==
  (pc = "delay" /\ outcome.kind = "meta") =>
    \A u \in issued :
      \A e \in DateTable :
        ( /\ outcome.meta.released \in {JsString(e[1]), JsNumber(e[2])}
          /\ outcome.meta.updated \in {JsString(e[1]), JsNumber(e[2])} )
        => /\ u.releasedAt = Some(e[2] \div 1000)
           /\ u.updatedAt = Some(e[2] \div 1000)
           /\ (pending = {} => db[1].releasedAt = u.releasedAt
                               /\ db[1].updatedAt = u.updatedAt)

\* a date before 1970 given as a string and as a number has been stored
C8_Witness ==
  /\ pc = "delay" /\ pending = {} /\ issued # {}
  /\ outcome.meta.released = JsString(<<1969, 12, 31, 23, 59, 59, 999>>)
  /\ outcome.meta.updated = JsNumber(-1)
  /\ db[1].releasedAt = Some(-1) /\ db[1].updatedAt = Some(-1)

====
